---------------------------- MODULE Spec2Model ----------------------------
(***************************************************************************)
(* A model of the search agent: the conversation memory                    *)
(* (src/memory_manager.py) and the tool-calling loop of SearchAgent.query  *)
(* (src/react_agent.py), with the tool executors of src/search_tools.py.   *)
(*                                                                         *)
(* Text is a sequence of tokens (strings); the empty text is <<>>, which   *)
(* is what Python's truth test of a string distinguishes.                  *)
(***************************************************************************)
EXTENDS Naturals, Integers, Sequences, FiniteSets, TLC

\* ------------------------------------------------------------------ bounds
\* Largest max_length (exchange pairs) a Memory is constructed with.
MaxLengthBound == 2
\* Largest number of messages the log may reach in the memory specification.
MaxLog == 5
\* Largest number of entries of a snapshot found on disk at construction.
MaxInitLen == 2
\* Largest max_iterations passed to query in the loop specification.
MaxIter == 4
\* Largest snapshot found at construction in the history specification.
MaxHistLen == 9
\* Largest max_length in the history specification.
MaxHistLength == 4
\* Calls started in one behaviour of the history specification.
MaxHistCalls == 2
\* requests one behaviour of the server handles
MaxRequests == 2

\* ------------------------------------------------------- program constants
\* max_searches = 2 (query's per-call search budget)
max_searches == 2
\* chat_history[-6:] and messages[-6:]: the history slice of the window
HistorySlice == 6
\* query's default max_iterations, the value chat calls it with
DefaultMaxIterations == 5
\* MemoryManager is constructed by the agent with save_to_file=True
save_to_file == TRUE

VARIABLES
    \* MemoryManager
    max_length,     \* self.max_length
    messages,       \* self.messages: the in-memory log
    file,           \* chat_history.json: [exists, valid, messages]
    disk,           \* "ok", or "flaky": writes of the file may fail
    save_out,       \* how the last _save_memory ended
    \* observations of the Memory interface
    last_op,        \* the last Memory operation performed
    clearedFrom,    \* length of the log the last clear emptied; -1 after an append
    got,            \* what the last get_memory call returned
    \* SearchAgent.query: one call in progress
    llm,            \* the kind of model capability behind self.llm
    pc,             \* "idle", "loop" (at the while test), "done" (returned)
    caller,         \* "query" or "chat"
    user_input,
    max_iterations,
    iteration,
    search_count,
    q_messages,     \* query's local `messages`: the window given to the model
    ret,            \* the text query returned
    failed,         \* the except branch was taken
    memory_length,  \* chat's "memory_length"; -1 when not a chat call
    \* observations of one query call
    log0,           \* self.messages when the call began
    got0,           \* len(get_memory()) just before the call
    n_invoke,       \* calls of self.llm.invoke
    n_search,       \* calls of the search executor
    n_time,         \* calls of the clock executor
    n_skip,         \* search requests discarded for exhausted budget
    n_cycles,       \* loop iterations that ended in a tool execution
    last_tools,     \* whether the last invoke was given tools
    last_resp,      \* the response the last invoke returned
    search_fails,   \* whether the search provider behind search_tool.run fails
    n_queries,      \* calls started in this behaviour
    \* api_server: the requests being served over the one global agent
    reqs,           \* per request: route, position, the events sent so far
    in_query,       \* the requests whose agent call is in progress
    loop_owner      \* the request whose handler holds the event loop; 0 if none

memvars == <<max_length, messages, file, disk, save_out>>
obsvars == <<last_op, clearedFrom, got>>
qvars == <<llm, pc, caller, user_input, max_iterations, iteration, search_count,
           q_messages, ret, failed, memory_length, log0, got0, n_invoke, n_search,
           n_time, n_skip, n_cycles, last_tools, last_resp, search_fails, n_queries>>
apivars == <<reqs, in_query, loop_owner>>
agentvars == <<memvars, obsvars, qvars>>
vars == <<memvars, obsvars, qvars, apivars>>

\* ----------------------------------------------------------------- helpers
Min(a, b) == IF a < b THEN a ELSE b

\* Python's s[-n:] for n > 0: the last n elements, or all of s when shorter.
LastN(s, n) == IF Len(s) <= n THEN s ELSE SubSeq(s, Len(s) - n + 1, Len(s))

\* Python's s[-n:] for any n >= 0: s[-0:] is s[0:], the whole list.
PySliceFromMinus(s, n) == IF n = 0 THEN s ELSE LastN(s, n)

\* --------------------------------------------------------------- messages
HumanMessage(c) == [type |-> "HumanMessage", content |-> c, tool_calls |-> <<>>,
                    tool_call_id |-> 0]
AIMessage(c) == [type |-> "AIMessage", content |-> c, tool_calls |-> <<>>,
                 tool_call_id |-> 0]
SystemMessage(c) == [type |-> "SystemMessage", content |-> c, tool_calls |-> <<>>,
                     tool_call_id |-> 0]
ToolMessage(c, id) == [type |-> "ToolMessage", content |-> c, tool_calls |-> <<>>,
                       tool_call_id |-> id]

SYSTEM_PROMPT == <<"You are a helpful AI assistant">>

\* ------------------------------------------------------ memory_manager.py
NoFile == [exists |-> FALSE, valid |-> FALSE, messages |-> <<>>]

\* A file json.load cannot parse (a write that failed after truncating it).
UnparsableFile == [exists |-> TRUE, valid |-> FALSE, messages |-> <<>>]

\* The value standing for a key an entry of the file lacks.
MissingKey == "<missing>"
MissingContent == <<MissingKey>>

\* _save_memory's loop: one {"role", "content"} entry per message of the log.
RECURSIVE SaveEntries(_)
SaveEntries(msgs) ==
    IF msgs = <<>> THEN <<>>
    ELSE LET m == Head(msgs)
             e == IF m.type = "HumanMessage"
                      THEN <<[role |-> "user", content |-> m.content]>>
                  ELSE IF m.type = "AIMessage"
                      THEN <<[role |-> "assistant", content |-> m.content]>>
                  ELSE IF m.type = "SystemMessage"
                      THEN <<[role |-> "system", content |-> m.content]>>
                  ELSE <<>>
         IN e \o SaveEntries(Tail(msgs))

\* _save_memory: the whole log replaces the file.
\* The snapshot holding the window of the log only.
_save_memory_Window(msgs) ==
    [exists |-> TRUE, valid |-> TRUE,
     messages |-> SaveEntries(LastN(msgs, max_length * 2))]

_save_memory(msgs) == [exists |-> TRUE, valid |-> TRUE, messages |-> SaveEntries(msgs)]

\* The loop replaying a system entry as an assistant message.
RECURSIVE LoadEntries_ReplaysSystem(_)
LoadEntries_ReplaysSystem(es) ==
    IF es = <<>> THEN <<>>
    ELSE (IF Head(es).role = "user" THEN <<HumanMessage(Head(es).content)>>
          ELSE <<AIMessage(Head(es).content)>>)
         \o LoadEntries_ReplaysSystem(Tail(es))

\* Whether replaying entry e raises: msg["role"] on an entry without the key,
\* or msg["content"] on a user or assistant entry without it.
EntryRaises(e) ==
    \/ e.role = MissingKey
    \/ e.role \in {"user", "assistant"} /\ e.content = MissingContent

\* _load_memory's loop: user and assistant entries are appended to
\* self.messages, others dropped; an entry that raises ends the loop, and the
\* except clause leaves what was appended before it.
RECURSIVE LoadEntries(_)
LoadEntries(es) ==
    IF es = <<>> THEN <<>>
    ELSE LET e == Head(es)
         IN IF EntryRaises(e) THEN <<>>
            ELSE (IF e.role = "user" THEN <<HumanMessage(e.content)>>
                  ELSE IF e.role = "assistant" THEN <<AIMessage(e.content)>>
                  ELSE <<>>)
                 \o LoadEntries(Tail(es))

\* _load_memory: the log a fresh MemoryManager starts with. A missing file is
\* skipped; json.load raising leaves the log as it was, empty.
_load_memory(f) ==
    IF ~f.exists THEN <<>>
    ELSE IF ~f.valid THEN <<>>
    ELSE LoadEntries(f.messages)

\* get_memory slicing from the wrong end: the oldest 2 * max_length messages.
get_memory_of_Oldest(msgs, ml) ==
    IF Len(msgs) > ml * 2 THEN SubSeq(msgs, 1, ml * 2) ELSE msgs

\* get_memory: the window served from a log.
get_memory_of(msgs, ml) ==
    IF Len(msgs) > ml * 2 THEN PySliceFromMinus(msgs, ml * 2) ELSE msgs

get_memory == get_memory_of(messages, max_length)

\* How a call of _save_memory may end: the file written; open() failing, the
\* file left as it was; json.dump failing after open() truncated the file.
WriteOutcomes == IF disk = "ok" THEN {"ok"} ELSE {"ok", "unwritten", "truncated"}

\* add_user_message / add_ai_message: append, then save when save_to_file.
FileAfterAppend(o, msgs) ==
    IF ~save_to_file \/ o = "unwritten" THEN file
    ELSE IF o = "truncated" THEN UnparsableFile
    ELSE _save_memory(msgs)

\* The failure of the write let out to the caller.
SaveRaises_Propagates(o) == o # "ok"

\* Whether _save_memory lets the failure of its write out to its caller:
\* the try of lines 74-92 catches every Exception.
SaveRaises(o) == FALSE

add_user_message(c) ==
    /\ messages' = Append(messages, HumanMessage(c))
    /\ \E o \in WriteOutcomes :
           /\ file' = FileAfterAppend(o, messages')
           /\ save_out' = o

add_ai_message(c) ==
    /\ messages' = Append(messages, AIMessage(c))
    /\ \E o \in WriteOutcomes :
           /\ file' = FileAfterAppend(o, messages')
           /\ save_out' = o

\* clear_memory forgetting the file.
clear_memory_KeepsFile ==
    /\ messages' = <<>>
    /\ file' = file
    /\ save_out' = save_out

\* clear_memory: empty the log, remove the file when it exists.
clear_memory ==
    /\ messages' = <<>>
    /\ file' = IF save_to_file /\ file.exists THEN NoFile ELSE file
    /\ save_out' = save_out

\* messages[-6:] of get_context_string
ContextSlice == 6
NoHistory == <<"No conversation history">>

\* get_context_string's loop: one line per user or assistant message.
RECURSIVE ContextLines(_)
ContextLines(ms) ==
    IF ms = <<>> THEN <<>>
    ELSE (IF Head(ms).type = "HumanMessage" THEN <<(<<"User: ">> \o Head(ms).content)>>
          ELSE IF Head(ms).type = "AIMessage"
              THEN <<(<<"Assistant: ">> \o Head(ms).content)>>
          ELSE <<>>)
         \o ContextLines(Tail(ms))

\* "\n".join(context)
RECURSIVE JoinLines(_)
JoinLines(ls) ==
    IF ls = <<>> THEN <<>>
    ELSE IF Len(ls) = 1 THEN Head(ls)
    ELSE Head(ls) \o <<"\n">> \o JoinLines(Tail(ls))

\* The context rendered from the first messages of the window.
get_context_string_Oldest ==
    IF get_memory = <<>> THEN NoHistory
    ELSE JoinLines(ContextLines(SubSeq(get_memory, 1, Min(ContextSlice, Len(get_memory)))))

\* get_context_string, lines 111-124.
get_context_string ==
    IF get_memory = <<>> THEN NoHistory
    ELSE JoinLines(ContextLines(PySliceFromMinus(get_memory, ContextSlice)))


\* -------------------------------------------------------- search_tools.py
\* The provider's failure handed on without the marker.
search_Unmarked(q) ==
    IF search_fails THEN <<"provider failure">>
    ELSE <<"results for">> \o q

\* SearchToolWrapper.search: the provider's text, or the failure marker text.
search(q) ==
    IF search_fails THEN <<"Search error: ", "provider failure">>
    ELSE <<"results for">> \o q

ValidTimezones == {<<"Asia/Shanghai">>, <<"America/New_York">>}

\* TimeToolWrapper.get_current_time: the time block, or the failure marker text
\* (the source's marker is the Chinese for "failed to get the time: ").
get_current_time(tz) ==
    IF tz \in ValidTimezones THEN <<"current time (">> \o tz \o <<")", "date", "time", "full">>
    ELSE <<"failed to get the time: ", "unknown timezone">> \o tz

\* ------------------------------------------------- the model capability
ToolCall(name, key, value, id) ==
    [name |-> name, args |-> [key |-> key, value |-> value], id |-> id]

\* args.get(k, default) of a tool call's argument mapping
ArgsGet(args, k, default) == IF args.key = k THEN args.value ELSE default

\* The ids the model gives the calls of the response of iteration `it`.
CallId(it, pos) == it * 10 + pos

SearchCall(it, pos) == ToolCall("search_web", "query", <<"kw">>, CallId(it, pos))
TimeCall(it, pos) == ToolCall("get_current_time", "none", <<>>, CallId(it, pos))
OtherCall(it, pos) == ToolCall("other_tool", "none", <<>>, CallId(it, pos))
\* a clock request naming a timezone pytz does not know
BadTimeCall(it, pos) ==
    ToolCall("get_current_time", "timezone", <<"Mars/Olympus">>, CallId(it, pos))

TC == "<tool_call>"
AV == "<arg_value>"
AVE == "</arg_value>"

PlainText == <<"ans">>
ProseText == <<"prose">>
\* a text-format tool call the first fallback pattern matches
XmlCallText == <<"let me search", TC, "search_web", "<arg_key>", "query", "</arg_key>",
                 AV, "kw", AVE, "</tool_call>">>
\* the marker with nothing a pattern matches
MarkerOnlyText == <<TC, "junk">>

\* text-format calls for the fallback parser: one per pattern, two that more
\* than one pattern matches, one with blanks around the value, one whose
\* value is blank, and a call without the marker
CallSyntaxText == <<TC, "search_web", "(", "query", "=", "\"", "q2", "\"", ")">>
JsonCallText == <<TC, "{", "\"query\"", ":", "\"", "q3", "\"", "}">>
XmlAndJsonText == <<TC, "search_web", "\"query\"", ":", "\"", "q3", "\"", AV, "q1", AVE>>
SyntaxAndJsonText == <<TC, "search_web", "(", "query", ":", "'", "q2", "'", ")",
                       "\"query\"", ":", "\"", "q3", "\"">>
PaddedXmlText == <<TC, "search_web", AV, " ", "q1", "\n", AVE>>
BlankXmlText == <<TC, "search_web", AV, " ", AVE, "\"query\"", ":", "\"", "q3", "\"">>
UnmarkedCallText == <<"search_web", AV, "q1", AVE>>
ParserTexts == {PlainText, UnmarkedCallText, MarkerOnlyText, XmlCallText, CallSyntaxText,
                JsonCallText, XmlAndJsonText, SyntaxAndJsonText, PaddedXmlText,
                BlankXmlText}

Response(c, tcs) == [content |-> c, tool_calls |-> tcs]

\* What self.llm.invoke(messages, tools=..., tool_choice="auto") may return at
\* iteration `it`, by the kind of model behind it.
ToolResponses(kind, it) ==
    IF kind = "single" THEN
        {Response(c, <<>>) : c \in {<<>>, PlainText, XmlCallText, MarkerOnlyText}}
        \cup {Response(c, <<tc>>) : c \in {<<>>, ProseText},
                                    tc \in {SearchCall(it, 1), TimeCall(it, 1),
                                            OtherCall(it, 1)}}
    ELSE IF kind = "multi" THEN
        {Response(PlainText, <<>>)}
        \cup {Response(<<>>, tcs) : tcs \in {<<SearchCall(it, 1), TimeCall(it, 2)>>,
                                             <<TimeCall(it, 1), SearchCall(it, 2)>>,
                                             <<OtherCall(it, 1), SearchCall(it, 2)>>,
                                             <<SearchCall(it, 1), SearchCall(it, 2)>>}}
    ELSE IF kind = "always_search" THEN
        {Response(c, <<SearchCall(it, 1)>>) : c \in {<<>>, ProseText}}
    ELSE IF kind = "clock_search_answer" THEN
        IF it = 1 THEN {Response(<<>>, <<TimeCall(it, 1)>>)}
        ELSE IF it = 2 THEN {Response(<<>>, <<SearchCall(it, 1)>>)}
        ELSE {Response(PlainText, <<>>)}
    ELSE IF kind = "text_calls" THEN
        {Response(c, <<>>) : c \in ParserTexts}
    ELSE IF kind = "failing_tools" THEN
        {Response(PlainText, <<>>), Response(XmlCallText, <<>>),
         Response(<<>>, <<SearchCall(it, 1)>>), Response(<<>>, <<BadTimeCall(it, 1)>>)}
    ELSE \* "direct"
        {Response(PlainText, <<>>)}

\* What self.llm.invoke(messages) may return: no tools are offered, so the
\* response carries text only.
NoToolResponses(kind) ==
    IF kind = "single" THEN {Response(c, <<>>) : c \in {<<>>, PlainText}}
    ELSE {Response(PlainText, <<>>)}

\* Whether a call of the model behind `kind` may raise.
MayRaise(kind) == kind \in {"single", "direct", "clock_search_answer"}

\* ---------------------------------------------- _parse_text_tool_call
NoQuery == [found |-> FALSE, query |-> <<>>]
FoundQuery(q) == [found |-> TRUE, query |-> q]

Whitespace == {" ", "\n"}
RECURSIVE LStrip(_)
LStrip(s) == IF s # <<>> /\ Head(s) \in Whitespace THEN LStrip(Tail(s)) ELSE s
RECURSIVE RStrip(_)
RStrip(s) ==
    IF s # <<>> /\ s[Len(s)] \in Whitespace THEN RStrip(SubSeq(s, 1, Len(s) - 1)) ELSE s
Strip(s) == RStrip(LStrip(s))

Positions(c, from, toks) == {i \in from..Len(c) : c[i] \in toks}
MinOf(S) == CHOOSE x \in S : \A y \in S : x <= y

Quotes == {"\"", "'"}

\* Pattern 1: <tool_call>search_web.*?<arg_value>(.*?)</arg_value>
Pattern1Matches(c) ==
    {<<i, j, k>> \in (1..Len(c)) \X (1..Len(c)) \X (1..Len(c)) :
        /\ c[i] = TC /\ i + 1 <= Len(c) /\ c[i + 1] = "search_web"
        /\ j > i + 1 /\ c[j] = AV
        /\ k > j /\ c[k] = AVE}

\* Pattern 2: <tool_call>\s*search_web\s*\(.*?query\s*[=:]\s*["']([^"']+)["']
Pattern2Matches(c) ==
    {<<i, j, k>> \in (1..Len(c)) \X (1..Len(c)) \X (1..Len(c)) :
        /\ c[i] = TC /\ i + 2 <= Len(c) /\ c[i + 1] = "search_web" /\ c[i + 2] = "("
        /\ j > i + 2 /\ c[j] = "query" /\ j + 2 <= Len(c)
        /\ c[j + 1] \in {"=", ":"} /\ c[j + 2] \in Quotes
        /\ k > j + 3 /\ c[k] \in Quotes
        /\ \A x \in (j + 3)..(k - 1) : c[x] \notin Quotes}

\* Pattern 3: <tool_call>.*?"query"\s*:\s*"([^"]+)"
Pattern3Matches(c) ==
    {<<i, j, k>> \in (1..Len(c)) \X (1..Len(c)) \X (1..Len(c)) :
        /\ c[i] = TC
        /\ j > i /\ c[j] = "\"query\"" /\ j + 2 <= Len(c)
        /\ c[j + 1] = ":" /\ c[j + 2] = "\""
        /\ k > j + 3 /\ c[k] = "\""
        /\ \A x \in (j + 3)..(k - 1) : c[x] # "\""}

\* re.search: the leftmost start, then the lazy .*? and the first closing token.
FirstMatch(M) ==
    LET i == MinOf({m[1] : m \in M})
        j == MinOf({m[2] : m \in {n \in M : n[1] = i}})
        k == MinOf({m[3] : m \in {n \in M : n[1] = i /\ n[2] = j}})
    IN <<i, j, k>>

\* The parser taking any non-empty text for the query, marker or not.
_parse_text_tool_call_Unmarked(c) ==
    IF c = <<>> THEN NoQuery ELSE FoundQuery(Strip(c))

\* The parser trying the JSON pattern before the other two.
_parse_text_tool_call_JsonFirst(c) ==
    IF c = <<>> \/ Positions(c, 1, {TC}) = {} THEN NoQuery
    ELSE IF Pattern3Matches(c) # {}
        THEN LET m == FirstMatch(Pattern3Matches(c))
             IN FoundQuery(Strip(SubSeq(c, m[2] + 3, m[3] - 1)))
    ELSE IF Pattern1Matches(c) # {}
        THEN LET m == FirstMatch(Pattern1Matches(c))
             IN FoundQuery(Strip(SubSeq(c, m[2] + 1, m[3] - 1)))
    ELSE IF Pattern2Matches(c) # {}
        THEN LET m == FirstMatch(Pattern2Matches(c))
             IN FoundQuery(Strip(SubSeq(c, m[2] + 3, m[3] - 1)))
    ELSE NoQuery

_parse_text_tool_call(c) ==
    IF c = <<>> \/ Positions(c, 1, {TC}) = {} THEN NoQuery
    ELSE IF Pattern1Matches(c) # {}
        THEN LET m == FirstMatch(Pattern1Matches(c))
             IN FoundQuery(Strip(SubSeq(c, m[2] + 1, m[3] - 1)))
    ELSE IF Pattern2Matches(c) # {}
        THEN LET m == FirstMatch(Pattern2Matches(c))
             IN FoundQuery(Strip(SubSeq(c, m[2] + 3, m[3] - 1)))
    ELSE IF Pattern3Matches(c) # {}
        THEN LET m == FirstMatch(Pattern3Matches(c))
             IN FoundQuery(Strip(SubSeq(c, m[2] + 3, m[3] - 1)))
    ELSE NoQuery


\* ------------------------------------------------------ SearchAgent.query
\* The response as the AIMessage the model returned.
ResponseMessage(r) == [type |-> "AIMessage", content |-> r.content,
                       tool_calls |-> r.tool_calls, tool_call_id |-> 0]

KnownTools == {"search_web", "get_current_time"}

\* The for loop going on after a branch was taken: the last call that one of
\* the branches takes.
FirstKnown_Last(tcs) ==
    LET K == {i \in 1..Len(tcs) : tcs[i].name \in KnownTools}
    IN IF K = {} THEN 0 ELSE CHOOSE x \in K : \A y \in K : y <= x

\* The for loop over response.tool_calls: the first call one of the three
\* branches takes (each of them ends in break); 0 when no call is taken.
FirstKnown(tcs) ==
    LET K == {i \in 1..Len(tcs) : tcs[i].name \in KnownTools}
    IN IF K = {} THEN 0 ELSE MinOf(K)

Continue(qm, sc, ds, dt) ==
    [kind |-> "continue", q_messages |-> qm, search_count |-> sc,
     d_search |-> ds, d_time |-> dt, d_skip |-> 0, text |-> <<>>]
Final(qm, sc, dk, c) ==
    [kind |-> "final", q_messages |-> qm, search_count |-> sc,
     d_search |-> 0, d_time |-> 0, d_skip |-> dk, text |-> c]
Raised(qm, sc) ==
    [kind |-> "raise", q_messages |-> qm, search_count |-> sc,
     d_search |-> 0, d_time |-> 0, d_skip |-> 0, text |-> <<>>]

\* The if / elif / elif of lines 252, 281, 288 on a call naming a known tool.
BranchOf(tool_call, sc) ==
    IF tool_call.name = "search_web" /\ sc < max_searches THEN "search"
    ELSE IF tool_call.name = "search_web" /\ sc >= max_searches THEN "skip"
    ELSE "time"

\* The tool result appended before the response that asked for it.
ToolExchange_ResultFirst(r, c, id) == <<ToolMessage(c, id), ResponseMessage(r)>>

\* messages.append(response); messages.append(ToolMessage(...)), lines
\* 267-275 and 304-313.
ToolExchange(r, c, id) == <<ResponseMessage(r), ToolMessage(c, id)>>

\* The discarded request's response appended to the window all the same.
SkipWindow_AppendsRequest(r, qm) == Append(qm, ResponseMessage(r))

\* The window after a search request is discarded, line 285: nothing is added.
SkipWindow(r, qm) == qm

\* The structured branch, lines 249-315.
DispatchStructured(r, sc, qm) ==
    LET i == FirstKnown(r.tool_calls)
    IN IF i = 0 THEN Final(qm, sc, 0, r.content)
       ELSE LET tool_call == r.tool_calls[i]
                branch == BranchOf(tool_call, sc)
            IN IF branch = "search"
                   THEN Continue(
                            qm \o ToolExchange(
                                      r,
                                      <<"Search results: ">>
                                        \o search(ArgsGet(tool_call.args, "query", <<>>)),
                                      tool_call.id),
                            sc + 1, 1, 0)
               ELSE IF branch = "skip"
                   THEN Final(SkipWindow(r, qm), sc, 1, r.content)
               ELSE Continue(
                        qm \o ToolExchange(
                                  r,
                                  get_current_time(ArgsGet(tool_call.args, "timezone",
                                                           <<"Asia/Shanghai">>)),
                                  tool_call.id),
                        sc, 0, 1)

\* The fallback's results appended as a tool-result message.
DispatchFallback_ToolMessage(r, sc, qm) ==
    LET p == _parse_text_tool_call(r.content)
    IN IF p.found /\ p.query # <<>>
           THEN Continue(
                    qm \o <<ResponseMessage(r),
                            ToolMessage(<<"\nSearch results: ">> \o search(p.query), 0)>>,
                    sc + 1, 1, 0)
       ELSE Final(qm, sc, 0, r.content)

\* The text fallback branch, lines 317-339.
DispatchFallback(r, sc, qm) ==
    LET p == _parse_text_tool_call(r.content)
    IN IF p.found /\ p.query # <<>>
           THEN Continue(
                    qm \o <<ResponseMessage(r),
                            AIMessage(<<"\nSearch results: ">> \o search(p.query)
                                      \o <<"\n\nBased on these results, please provide the answer:">>)>>,
                    sc + 1, 1, 0)
       ELSE Final(qm, sc, 0, r.content)

\* The fallback branch entered without the search_count test of line 318.
Dispatch_FallbackUnbudgeted(r, sc, qm) ==
    IF r.tool_calls # <<>> THEN DispatchStructured(r, sc, qm)
    ELSE IF r.content # <<>> THEN DispatchFallback(r, sc, qm)
    ELSE Final(qm, sc, 0, r.content)

\* One pass of the while body on the response r, lines 246-351.
Dispatch(r, sc, qm) ==
    IF r.tool_calls # <<>> THEN DispatchStructured(r, sc, qm)
    ELSE IF sc < max_searches /\ r.content # <<>> THEN DispatchFallback(r, sc, qm)
    ELSE Final(qm, sc, 0, r.content)

\* What an invoke may do: return a response or raise.
Outcome(raises, r) == [raises |-> raises, response |-> r]
InvokeOutcomes(kind, with_tools, it) ==
    {Outcome(FALSE, r) :
        r \in IF with_tools THEN ToolResponses(kind, it) ELSE NoToolResponses(kind)}
    \cup IF MayRaise(kind) THEN {Outcome(TRUE, Response(<<>>, <<>>))} ELSE {}

\* The except branch's return value, line 368.
ApologyPrefix == "Sorry, an error occurred while processing your request"
Apology == <<ApologyPrefix, ": ", "model failure">>

\* memory_length taken from the whole log instead of get_memory().
MemoryLengthAfter_FullLog(msgs) ==
    IF caller = "chat" THEN Len(msgs) ELSE -1

\* chat's memory_length, line 384, taken right after query returns.
MemoryLengthAfter(msgs) ==
    IF caller = "chat" THEN Len(get_memory_of(msgs, max_length)) ELSE -1

\* The pass executed a tool: `continue`, line 343.
ContinueLoop ==
    /\ pc' = "loop"
    /\ UNCHANGED <<messages, file, save_out, ret, failed, memory_length>>

\* The final answer appended to Memory together with the call's tool results.
ReturnFinal_PersistsWindow(c) ==
    /\ messages' = messages
                    \o SelectSeq(q_messages', LAMBDA m : m.type = "ToolMessage")
                    \o <<AIMessage(c)>>
    /\ file' = FileAfterAppend("ok", messages')
    /\ save_out' = "ok"
    /\ ret' = c
    /\ pc' = "done"
    /\ failed' = FALSE
    /\ memory_length' = MemoryLengthAfter(messages')

\* The final answer, lines 346-351 and 358-360: appended to Memory and returned.
ReturnFinal(c) ==
    /\ add_ai_message(c)
    /\ ret' = IF SaveRaises(save_out') THEN Apology ELSE c
    /\ pc' = "done"
    /\ failed' = SaveRaises(save_out')
    /\ memory_length' = MemoryLengthAfter(messages')

\* The except branch appending its apology to Memory as the assistant's answer.
ExceptReturn_SavesApology ==
    /\ add_ai_message(Apology)
    /\ ret' = Apology
    /\ pc' = "done"
    /\ failed' = TRUE
    /\ memory_length' = MemoryLengthAfter(messages')

\* The except branch, lines 362-368: the apology is returned, Memory untouched.
ExceptReturn ==
    /\ UNCHANGED <<messages, file, save_out>>
    /\ ret' = Apology
    /\ pc' = "done"
    /\ failed' = TRUE
    /\ memory_length' = MemoryLengthAfter(messages)

\* The end of one pass or of the call.
Finish(d) ==
    /\ q_messages' = d.q_messages
    /\ search_count' = d.search_count
    /\ n_search' = n_search + d.d_search
    /\ n_time' = n_time + d.d_time
    /\ n_skip' = n_skip + d.d_skip
    /\ n_cycles' = n_cycles + (IF d.kind = "continue" THEN 1 ELSE 0)
    /\ IF d.kind = "continue" THEN ContinueLoop
       ELSE IF d.kind = "final" THEN ReturnFinal(d.text)
       ELSE ExceptReturn

\* get_memory returns self.messages itself unless it slices: the list that
\* add_user_message then appends to.
ChatHistoryAliased == ~(Len(messages) > max_length * 2)

\* chat_history as it is when line 222 reads it, after add_user_message.
ChatHistoryAtUse(u) ==
    IF ChatHistoryAliased THEN Append(messages, HumanMessage(u)) ELSE get_memory

\* query's lines 209-231 (and chat's call of it): read the window, append the
\* user message to Memory, build the message list, initialise the counters.
QueryStart(u, mi, who) ==
    /\ pc \in {"idle", "done"}
    /\ add_user_message(u)
    /\ caller' = who
    /\ IF SaveRaises(save_out')
           THEN /\ q_messages' = <<>>
                /\ pc' = "done"
                /\ ret' = Apology
                /\ failed' = TRUE
                /\ memory_length' = IF who = "chat" THEN Len(get_memory_of(messages', max_length))
                                    ELSE -1
       ELSE /\ q_messages' = <<SystemMessage(SYSTEM_PROMPT)>>
                             \o LastN(ChatHistoryAtUse(u), HistorySlice)
                             \o <<HumanMessage(u)>>
            /\ pc' = "loop"
            /\ ret' = <<>>
            /\ failed' = FALSE
            /\ memory_length' = -1
    /\ user_input' = u
    /\ max_iterations' = mi
    /\ iteration' = 0
    /\ search_count' = 0
    /\ log0' = messages
    /\ got0' = Len(get_memory)
    /\ n_invoke' = 0 /\ n_search' = 0 /\ n_time' = 0 /\ n_skip' = 0 /\ n_cycles' = 0
    /\ last_tools' = FALSE
    /\ last_resp' = Response(<<>>, <<>>)
    /\ last_op' = "add_user"
    /\ clearedFrom' = -1
    /\ got' = <<>>
    /\ UNCHANGED <<apivars, max_length, disk, llm, search_fails>>

\* The while test off by one.
LoopGuard_OffByOne == iteration <= max_iterations

\* The while test, line 233.
LoopGuard == iteration < max_iterations

\* Whether the loop's invoke passes tools=self.tools, tool_choice="auto":
\* lines 240-244 pass them whatever search_count is.
OfferTools(sc) == TRUE

\* One pass of the while loop, lines 233-351.
LoopIteration ==
    /\ pc = "loop"
    /\ LoopGuard
    /\ \E o \in InvokeOutcomes(llm, OfferTools(search_count), iteration + 1) :
           /\ Finish(IF o.raises THEN Raised(q_messages, search_count)
                     ELSE Dispatch(o.response, search_count, q_messages))
           /\ last_resp' = o.response
    /\ iteration' = iteration + 1
    /\ n_invoke' = n_invoke + 1
    /\ last_tools' = OfferTools(search_count)
    /\ last_op' = IF pc' = "done" /\ ~failed' THEN "add_ai" ELSE last_op
    /\ UNCHANGED <<apivars, max_length, disk, llm, search_fails, caller, user_input,
                   max_iterations,
                   log0, got0, n_queries, clearedFrom, got>>

\* After the loop, lines 353-360: one invoke without tools.
LoopExit ==
    /\ pc = "loop"
    /\ ~LoopGuard
    /\ \E o \in InvokeOutcomes(llm, FALSE, iteration + 1) :
           /\ Finish(IF o.raises THEN Raised(q_messages, search_count)
                     ELSE Final(q_messages, search_count, 0, o.response.content))
           /\ last_resp' = o.response
    /\ n_invoke' = n_invoke + 1
    /\ last_tools' = FALSE
    /\ last_op' = IF ~failed' THEN "add_ai" ELSE last_op
    /\ UNCHANGED <<apivars, max_length, disk, llm, search_fails, caller, user_input,
                   max_iterations,
                   iteration, log0, got0, n_queries, clearedFrom, got>>

\* The values of query's variables when no call is in progress.
QueryIdle ==
    /\ pc' = "idle"
    /\ caller' = "none"
    /\ user_input' = <<>>
    /\ max_iterations' = 0
    /\ iteration' = 0
    /\ search_count' = 0
    /\ q_messages' = <<>>
    /\ ret' = <<>>
    /\ failed' = FALSE
    /\ memory_length' = -1
    /\ log0' = <<>>
    /\ got0' = 0
    /\ n_invoke' = 0 /\ n_search' = 0 /\ n_time' = 0 /\ n_skip' = 0 /\ n_cycles' = 0
    /\ last_tools' = FALSE
    /\ last_resp' = Response(<<>>, <<>>)

\* SearchAgent.clear_memory, lines 388-392, between two calls.
AgentClear ==
    /\ pc \in {"idle", "done"}
    /\ clear_memory
    /\ QueryIdle
    /\ last_op' = "clear"
    /\ clearedFrom' = Len(messages)
    /\ got' = <<>>
    /\ UNCHANGED <<apivars, max_length, disk, llm, search_fails, n_queries>>

\* SearchAgent.get_memory_summary, lines 394-396, between two calls.
AgentSummary ==
    /\ pc \in {"idle", "done"}
    /\ got' = get_context_string
    /\ last_op' = "summary"
    /\ UNCHANGED <<apivars, memvars, clearedFrom, qvars>>

\* ------------------------------------------- the Memory interface, alone
MemTexts == {<<"question">>, <<"another">>}

MemAddUser(c) ==
    /\ Len(messages) < MaxLog
    /\ add_user_message(c)
    /\ last_op' = "add_user"
    /\ clearedFrom' = -1
    /\ got' = <<>>
    /\ UNCHANGED <<apivars, max_length, disk, qvars>>

MemAddAI(c) ==
    /\ Len(messages) < MaxLog
    /\ add_ai_message(c)
    /\ last_op' = "add_ai"
    /\ clearedFrom' = -1
    /\ got' = <<>>
    /\ UNCHANGED <<apivars, max_length, disk, qvars>>

MemClear ==
    /\ clear_memory
    /\ last_op' = "clear"
    /\ clearedFrom' = Len(messages)
    /\ got' = <<>>
    /\ UNCHANGED <<apivars, max_length, disk, qvars>>

MemGet ==
    /\ got' = get_memory
    /\ last_op' = "get"
    /\ UNCHANGED <<apivars, memvars, clearedFrom, qvars>>

\* A restart: a fresh MemoryManager (lines 31-41) on the same storage.
MemRestart ==
    /\ messages' = IF save_to_file THEN _load_memory(file) ELSE <<>>
    /\ last_op' = "load"
    /\ got' = <<>>
    /\ UNCHANGED <<apivars, max_length, file, disk, save_out, clearedFrom, qvars>>

\* ------------------------------------------------------------ api_server.py
\* The requests one server process handles over its global agent (line 36).
Requests == 1..MaxRequests

\* What agent.query and agent.chat may hand back: any text, the empty one too.
ApiTexts == {<<>>, PlainText, Apology}
\* request.message
ApiMessages == {<<>>, <<" ">>, <<"question">>}

NoRequest == [route |-> "none", pc |-> "none", status |-> 0, message |-> <<>>,
              events |-> <<>>, text |-> <<>>, sent |-> 0,
              \* the worker thread inside agent.query: the message it is adding
              \* ("user", "answer"), where it is in the add, the list its
              \* _save_memory built, and where its two messages went in the log
              phase |-> "none", step |-> "none", snap |-> <<>>, upos |-> 0, apos |-> 0]
Event(t, c) == [type |-> t, content |-> c]

\* `not request.message or not request.message.strip()`, lines 109 and 173
EmptyMessage(m) == m = <<>> \/ Strip(m) = <<>>

\* POST /api/chat, lines 97-122, up to the call of agent.chat: the handler is
\* a coroutine that calls agent.chat directly, so it holds the event loop
\* until agent.chat returns.
ApiChat(r, m, st) ==
    /\ reqs[r].pc = "none"
    /\ loop_owner = 0
    /\ IF EmptyMessage(m)
           THEN /\ reqs' = [reqs EXCEPT ![r] = [NoRequest EXCEPT !.route = "/api/chat",
                                                 !.pc = "rejected", !.status = 400]]
                /\ UNCHANGED <<in_query, loop_owner>>
       ELSE IF st
           THEN /\ reqs' = [reqs EXCEPT ![r] = [NoRequest EXCEPT !.route = "/api/chat",
                                                 !.pc = "stream_ready", !.status = 200,
                                                 !.message = Strip(m)]]
                /\ UNCHANGED <<in_query, loop_owner>>
       ELSE /\ reqs' = [reqs EXCEPT ![r] = [NoRequest EXCEPT !.route = "/api/chat",
                                             !.pc = "in_chat", !.message = Strip(m)]]
            /\ in_query' = in_query \cup {r}
            /\ loop_owner' = r
    /\ UNCHANGED agentvars

\* agent.chat returns and the handler answers, lines 118-119.
ApiChatReturn(r) ==
    /\ reqs[r].pc = "in_chat"
    /\ \E t \in ApiTexts :
           reqs' = [reqs EXCEPT ![r].pc = "responded", ![r].status = 200, ![r].text = t]
    /\ in_query' = in_query \ {r}
    /\ loop_owner' = 0
    /\ UNCHANGED agentvars

\* POST /api/chat/stream, lines 162-184.
ApiChatStream(r, m) ==
    /\ reqs[r].pc = "none"
    /\ loop_owner = 0
    /\ reqs' = [reqs EXCEPT ![r] =
                   IF EmptyMessage(m)
                       THEN [NoRequest EXCEPT !.route = "/api/chat/stream",
                                              !.pc = "rejected", !.status = 400]
                   ELSE [NoRequest EXCEPT !.route = "/api/chat/stream",
                                          !.pc = "stream_ready", !.status = 200,
                                          !.message = Strip(m)]]
    /\ UNCHANGED <<in_query, loop_owner, agentvars>>

\* generate_stream, lines 133-134: the start event, then the sleep.
StreamStart(r) ==
    /\ reqs[r].pc = "stream_ready"
    /\ loop_owner = 0
    /\ reqs' = [reqs EXCEPT ![r].pc = "sleeping",
                            ![r].events = Append(@, Event("start", <<>>))]
    /\ UNCHANGED <<in_query, loop_owner, agentvars>>

\* generate_stream, line 140: agent.query handed to a worker thread, the event
\* loop left free; lines 147-151 when handing it over raises.
StreamToThread(r) ==
    /\ reqs[r].pc = "sleeping"
    /\ loop_owner = 0
    /\ \E raises \in BOOLEAN :
           IF raises
               THEN /\ reqs' = [reqs EXCEPT ![r].pc = "closed",
                                            ![r].events = Append(@, Event("error", <<>>))]
                    /\ UNCHANGED in_query
           ELSE /\ reqs' = [reqs EXCEPT ![r].pc = "in_thread"]
                /\ in_query' = in_query \cup {r}
    /\ UNCHANGED <<loop_owner, agentvars>>

\* agent.query returns in its worker thread, whatever the event loop is doing.
ThreadReturn(r) ==
    /\ reqs[r].pc = "in_thread"
    /\ \E t \in ApiTexts :
           reqs' = [reqs EXCEPT ![r].pc = "streaming", ![r].text = t]
    /\ in_query' = in_query \ {r}
    /\ UNCHANGED <<loop_owner, agentvars>>

\* What the worker threads leave alone.
ThreadFrame == <<max_length, disk, save_out, obsvars, qvars, loop_owner>>

\* agent.query in the worker thread of request r, step by step: the threads
\* share self.messages and the file, and a thread may be preempted between
\* any two of these steps.
\* self.messages.append of add_user_message (line 45, called at
\* react_agent.py:214) or of add_ai_message (line 51, called at 349).
ThreadAppend(r) ==
    /\ reqs[r].pc = "in_thread"
    /\ \/ reqs[r].phase = "none"
       \/ reqs[r].phase = "answer" /\ reqs[r].step = "invoked"
    /\ messages' = Append(messages,
                          IF reqs[r].phase = "none" THEN HumanMessage(reqs[r].message)
                          ELSE AIMessage(reqs[r].text))
    /\ reqs' = IF reqs[r].phase = "none"
                   THEN [reqs EXCEPT ![r].phase = "user", ![r].step = "appended",
                                     ![r].upos = Len(messages')]
               ELSE [reqs EXCEPT ![r].step = "appended", ![r].apos = Len(messages')]
    /\ UNCHANGED <<file, in_query, ThreadFrame>>

\* _save_memory, lines 75-87: the list of entries built from self.messages.
ThreadReadLog(r) ==
    /\ reqs[r].pc = "in_thread"
    /\ reqs[r].step = "appended"
    /\ reqs' = [reqs EXCEPT ![r].step = "read", ![r].snap = SaveEntries(messages)]
    /\ UNCHANGED <<messages, file, in_query, ThreadFrame>>

\* _save_memory, line 89: open(..., 'w') truncates the file.
ThreadOpenFile(r) ==
    /\ reqs[r].pc = "in_thread"
    /\ reqs[r].step = "read"
    /\ file' = UnparsableFile
    /\ reqs' = [reqs EXCEPT ![r].step = "open"]
    /\ UNCHANGED <<messages, in_query, ThreadFrame>>

\* The write storing the log as it is when the file is written.
DumpedFile_CurrentLog(r) == _save_memory(messages)

\* What the file holds after r's json.dump and close: r's list written from
\* offset 0 of its own handle. Over a longer document that another thread
\* wrote since r's open, the longer one's tail stays and no JSON is left.
DumpedFile(r) ==
    IF file.valid /\ Len(file.messages) > Len(reqs[r].snap) THEN UnparsableFile
    ELSE [exists |-> TRUE, valid |-> TRUE, messages |-> reqs[r].snap]

\* _save_memory, line 90: json.dump and the close of the with block.
ThreadDumpFile(r) ==
    /\ reqs[r].pc = "in_thread"
    /\ reqs[r].step = "open"
    /\ file' = DumpedFile(r)
    /\ reqs' = [reqs EXCEPT ![r].step = "saved"]
    /\ UNCHANGED <<messages, in_query, ThreadFrame>>

\* The loop of query, react_agent.py:233-351, for a model that answers with
\* text: one invoke, which returns the answer or raises.
ThreadInvoke(r) ==
    /\ reqs[r].pc = "in_thread"
    /\ reqs[r].phase = "user" /\ reqs[r].step = "saved"
    /\ \E o \in InvokeOutcomes(llm, TRUE, 1) :
           reqs' = IF o.raises
                       THEN [reqs EXCEPT ![r].phase = "failed", ![r].step = "saved",
                                         ![r].text = Apology]
                   ELSE [reqs EXCEPT ![r].phase = "answer", ![r].step = "invoked",
                                     ![r].text = o.response.content]
    /\ UNCHANGED <<messages, file, in_query, ThreadFrame>>

\* query returns (line 351, or 368 after a failure) and the thread ends.
ThreadFinish(r) ==
    /\ reqs[r].pc = "in_thread"
    /\ reqs[r].phase \in {"answer", "failed"} /\ reqs[r].step = "saved"
    /\ reqs' = [reqs EXCEPT ![r].pc = "streaming"]
    /\ in_query' = in_query \ {r}
    /\ UNCHANGED <<messages, file, ThreadFrame>>

\* generate_stream, lines 143-145: one content event for the next character.
StreamContent(r) ==
    /\ reqs[r].pc = "streaming"
    /\ loop_owner = 0
    /\ reqs[r].sent < Len(reqs[r].text)
    /\ reqs' = [reqs EXCEPT ![r].sent = @ + 1,
                            ![r].events =
                                Append(@, Event("content", reqs[r].text[reqs[r].sent + 1]))]
    /\ UNCHANGED <<in_query, loop_owner, agentvars>>

\* The stream closed with a done event after only part of the text.
StreamDone_Early(r) ==
    /\ reqs[r].pc = "streaming"
    /\ loop_owner = 0
    /\ reqs[r].sent = Min(1, Len(reqs[r].text))
    /\ reqs' = [reqs EXCEPT ![r].pc = "closed",
                            ![r].events = Append(@, Event("done", <<>>))]
    /\ UNCHANGED <<in_query, loop_owner, agentvars>>

\* generate_stream, line 154: the done event after the last character.
StreamDone(r) ==
    /\ reqs[r].pc = "streaming"
    /\ loop_owner = 0
    /\ reqs[r].sent = Len(reqs[r].text)
    /\ reqs' = [reqs EXCEPT ![r].pc = "closed",
                            ![r].events = Append(@, Event("done", <<>>))]
    /\ UNCHANGED <<in_query, loop_owner, agentvars>>

\* ------------------------------------------------------------ initial states
HistTok == <<"h1", "h2", "h3", "h4", "h5", "h6", "h7", "h8", "h9", "h10", "h11", "h12">>

\* The snapshot a previous process left after n appends of whole exchanges.
AltSnapshot(n) ==
    IF n = 0 THEN NoFile
    ELSE [exists |-> TRUE, valid |-> TRUE,
          messages |-> [i \in 1..n |->
                           [role |-> IF i % 2 = 1 THEN "user" ELSE "assistant",
                            content |-> <<HistTok[i]>>]]]

\* Snapshots of up to n entries with any of the three roles _save_memory writes.
RoleSnapshots(n) ==
    {NoFile} \cup
    UNION {{[exists |-> TRUE, valid |-> TRUE,
             messages |-> [i \in 1..k |-> [role |-> rs[i], content |-> <<HistTok[i]>>]]] :
                rs \in [1..k -> {"user", "assistant", "system"}]} : k \in 1..n}

\* No request has reached the server.
InitApi ==
    /\ reqs = [r \in Requests |-> NoRequest]
    /\ in_query = {}
    /\ loop_owner = 0

InitQuery ==
    /\ pc = "idle"
    /\ caller = "none"
    /\ user_input = <<>>
    /\ max_iterations = 0
    /\ iteration = 0
    /\ search_count = 0
    /\ q_messages = <<>>
    /\ ret = <<>>
    /\ failed = FALSE
    /\ memory_length = -1
    /\ log0 = <<>>
    /\ got0 = 0
    /\ n_invoke = 0 /\ n_search = 0 /\ n_time = 0 /\ n_skip = 0 /\ n_cycles = 0
    /\ last_tools = FALSE
    /\ last_resp = Response(<<>>, <<>>)
    /\ n_queries = 0

\* MemoryManager.__init__, lines 31-41: the log is hydrated from the file.
InitMemory(ml, f) ==
    /\ max_length = ml
    /\ file = f
    /\ save_out = "ok"
    /\ messages = IF save_to_file THEN _load_memory(f) ELSE <<>>
    /\ last_op = "load"
    /\ clearedFrom = -1
    /\ got = <<>>

AgentInputs == {<<"question">>}

\* The tool loop: one call at a time, on an agent constructed over a short log.
Init ==
    /\ \E ml \in 1..MaxLengthBound, n \in 0..MaxInitLen : InitMemory(ml, AltSnapshot(n))
    /\ InitQuery
    /\ InitApi
    /\ disk = "ok"
    /\ llm \in {"single", "multi", "always_search"}
    /\ search_fails \in BOOLEAN

\* A front end calling query on the idle agent.
Query(u, mi) ==
    /\ pc = "idle"
    /\ QueryStart(u, mi, "query")
    /\ UNCHANGED n_queries

Next ==
    \/ \E u \in AgentInputs, mi \in 0..MaxIter : Query(u, mi)
    \/ LoopIteration
    \/ LoopExit
    \/ AgentClear

Spec == Init /\ [][Next]_vars

\* The tool loop with each step of a call in progress eventually taken: query
\* is synchronous, so a call proceeds whenever the model and the tools return.
InitLive ==
    /\ \E n \in 0..MaxInitLen : InitMemory(MaxLengthBound, AltSnapshot(n))
    /\ InitQuery
    /\ InitApi
    /\ disk = "ok"
    /\ llm \in {"single", "multi", "always_search"}
    /\ search_fails \in BOOLEAN

SpecLive == InitLive /\ [][Next]_vars /\ WF_vars(LoopIteration) /\ WF_vars(LoopExit)

\* The tool loop driven by a model that requests a search in every response.
InitSearch ==
    /\ \E ml \in 1..MaxLengthBound, n \in 0..MaxInitLen : InitMemory(ml, AltSnapshot(n))
    /\ InitQuery
    /\ InitApi
    /\ disk = "ok"
    /\ llm = "always_search"
    /\ search_fails \in BOOLEAN

SpecSearch == InitSearch /\ [][Next]_vars

\* The Memory interface called directly.
InitMem ==
    /\ \E ml \in 1..MaxLengthBound, f \in RoleSnapshots(MaxInitLen) : InitMemory(ml, f)
    /\ InitQuery
    /\ InitApi
    /\ disk \in {"ok", "flaky"}
    /\ llm = "direct"
    /\ search_fails = FALSE

NextMem ==
    \/ \E c \in MemTexts : MemAddUser(c)
    \/ \E c \in {<<"ans">>} : MemAddAI(c)
    \/ MemClear
    \/ MemGet
    \/ MemRestart

SpecMem == InitMem /\ [][NextMem]_vars


\* Calls one after the other, on an agent constructed over a log of any length.
HistIterations == {1, DefaultMaxIterations}

InitHist ==
    /\ \E ml \in 1..MaxHistLength, n \in 0..MaxHistLen : InitMemory(ml, AltSnapshot(n))
    /\ InitQuery
    /\ InitApi
    /\ disk = "ok"
    /\ llm \in {"direct", "clock_search_answer"}
    /\ search_fails = FALSE

\* A front end calling query, or chat (lines 370-386), which calls query with
\* the default max_iterations.
Call(u, mi, who) ==
    /\ n_queries < MaxHistCalls
    /\ who = "chat" => mi = DefaultMaxIterations
    /\ QueryStart(u, mi, who)
    /\ n_queries' = n_queries + 1

NextHist ==
    \/ \E u \in AgentInputs, mi \in HistIterations, who \in {"query", "chat"} :
           Call(u, mi, who)
    \/ LoopIteration
    \/ LoopExit
    \/ AgentClear
    \/ AgentSummary

SpecHist == InitHist /\ [][NextHist]_vars

\* The tool loop over tools that fail: the search provider raises, the model
\* names a timezone the clock does not know.
InitTools ==
    /\ \E n \in 0..MaxInitLen : InitMemory(MaxLengthBound, AltSnapshot(n))
    /\ InitQuery
    /\ InitApi
    /\ disk = "ok"
    /\ llm = "failing_tools"
    /\ search_fails = TRUE

SpecTools == InitTools /\ [][Next]_vars /\ WF_vars(LoopIteration) /\ WF_vars(LoopExit)

\* The tool loop with a model that asks for the clock, then for a search, then
\* answers, and with one whose responses carry two requests.
InitWindow ==
    /\ \E ml \in 1..MaxLengthBound, n \in 0..MaxInitLen : InitMemory(ml, AltSnapshot(n))
    /\ InitQuery
    /\ InitApi
    /\ disk = "ok"
    /\ llm \in {"clock_search_answer", "multi"}
    /\ search_fails \in BOOLEAN

SpecWindow == InitWindow /\ [][Next]_vars

\* The tool loop with a model that writes its tool calls as text.
InitParse ==
    /\ \E ml \in 1..MaxLengthBound, n \in 0..MaxInitLen : InitMemory(ml, AltSnapshot(n))
    /\ InitQuery
    /\ InitApi
    /\ disk = "ok"
    /\ llm = "text_calls"
    /\ search_fails \in BOOLEAN

SpecParse == InitParse /\ [][Next]_vars

\* Calls one after the other on an agent constructed over a log of whole
\* exchanges, with a model that may fail.
InitPairs ==
    /\ \E ml \in 1..MaxHistLength, n \in {k \in 0..MaxHistLen : k % 2 = 0} :
           InitMemory(ml, AltSnapshot(n))
    /\ InitQuery
    /\ InitApi
    /\ disk = "ok"
    /\ llm \in {"direct", "clock_search_answer"}
    /\ search_fails = FALSE

SpecPairs == InitPairs /\ [][NextHist]_vars

\* The tool loop over a file whose writes may fail.
InitDisk ==
    /\ \E n \in 0..MaxInitLen : InitMemory(MaxLengthBound, AltSnapshot(n))
    /\ InitQuery
    /\ InitApi
    /\ disk = "flaky"
    /\ llm = "multi"
    /\ search_fails \in BOOLEAN

SpecDisk == InitDisk /\ [][Next]_vars

\* The entries a file may hold: the three roles _save_memory writes, and
\* entries that lack their role or their content.
EntryShapes(i) ==
    {[role |-> r, content |-> <<HistTok[i]>>] : r \in {"user", "assistant", "system"}}
    \cup {[role |-> MissingKey, content |-> <<HistTok[i]>>],
          [role |-> "user", content |-> MissingContent],
          [role |-> "system", content |-> MissingContent]}

\* Files of up to n entries of any shape, and the file that does not parse.
AnySnapshots(n) ==
    {NoFile, UnparsableFile} \cup
    UNION {{[exists |-> TRUE, valid |-> TRUE, messages |-> es] :
                es \in {f \in [1..k -> UNION {EntryShapes(i) : i \in 1..k}] :
                            \A i \in 1..k : f[i] \in EntryShapes(i)}} : k \in 1..n}

\* Construction over any file, then the Memory interface.
InitLoad ==
    /\ \E ml \in 1..MaxLengthBound, f \in AnySnapshots(MaxInitLen) : InitMemory(ml, f)
    /\ InitQuery
    /\ InitApi
    /\ disk = "ok"
    /\ llm = "direct"
    /\ search_fails = FALSE

SpecLoad == InitLoad /\ [][NextMem]_vars

\* The server: requests arriving on both routes over the one agent; a handler
\* or a worker thread that can take its next step eventually takes it.
InitServer ==
    /\ InitMemory(MaxLengthBound, NoFile)
    /\ InitQuery
    /\ InitApi
    /\ disk = "ok"
    /\ llm = "direct"
    /\ search_fails = FALSE

NextApi ==
    \/ \E r \in Requests, m \in ApiMessages, st \in BOOLEAN : ApiChat(r, m, st)
    \/ \E r \in Requests : ApiChatReturn(r)
    \/ \E r \in Requests, m \in ApiMessages : ApiChatStream(r, m)
    \/ \E r \in Requests : StreamStart(r)
    \/ \E r \in Requests : StreamToThread(r)
    \/ \E r \in Requests : ThreadReturn(r)
    \/ \E r \in Requests : StreamContent(r)
    \/ \E r \in Requests : StreamDone(r)

SpecApi ==
    /\ InitServer
    /\ [][NextApi]_vars
    /\ \A r \in Requests :
           /\ WF_vars(ApiChatReturn(r)) /\ WF_vars(StreamStart(r))
           /\ WF_vars(StreamToThread(r)) /\ WF_vars(ThreadReturn(r))
           /\ WF_vars(StreamContent(r)) /\ WF_vars(StreamDone(r))

\* The two requests whose calls of agent.query run side by side.
Callers == {1, 2}

\* The server with the steps of agent.query inside the worker threads: two
\* stream requests over an agent with an empty log.
NextConc ==
    \/ \E r \in Callers : ApiChatStream(r, <<"question">>)
    \/ \E r \in Callers : StreamStart(r)
    \/ \E r \in Callers : StreamToThread(r)
    \/ \E r \in Callers : ThreadAppend(r)
    \/ \E r \in Callers : ThreadReadLog(r)
    \/ \E r \in Callers : ThreadOpenFile(r)
    \/ \E r \in Callers : ThreadDumpFile(r)
    \/ \E r \in Callers : ThreadInvoke(r)
    \/ \E r \in Callers : ThreadFinish(r)
    \/ \E r \in Callers : StreamContent(r)
    \/ \E r \in Callers : StreamDone(r)

SpecConc == InitServer /\ [][NextConc]_vars


\* ------------------------------------------------------------------ claims

\* C1: in one query call the search executor is executed at most max_searches
\* (2) times, whatever the model responds (structured requests or text-format
\* calls) and whatever max_iterations is.
C1_SearchBudget == n_search <= max_searches

\* C1 witness: two searches were executed and a further search request came.
C1_Witness == pc = "done" /\ n_search = max_searches /\ n_skip > 0

\* C2: the text query returns is never empty.
C2_NeverEmpty == pc = "done" => ret # <<>>

\* C3: when an invoke of the model raises, query returns the apology string,
\* and Memory is the log of before the call plus the user's message, with no
\* assistant message of this call.
C3_ModelFailure ==
    (pc = "done" /\ failed) =>
        /\ Head(ret) = ApologyPrefix
        /\ messages = Append(log0, HumanMessage(user_input))
        /\ messages[Len(messages)].type = "HumanMessage"

\* C3 witness: the model failed at the final invoke without tools, after tool
\* executions.
C3_Witness == pc = "done" /\ failed /\ n_cycles > 0 /\ ~last_tools

\* C4: with a model that requests the search tool in every response, query
\* ends after exactly max_iterations passes of the loop and returns non-empty
\* text.
C4_AlwaysSearch ==
    (llm = "always_search" /\ pc = "done") =>
        (iteration = max_iterations /\ ret # <<>>)

\* The state part of C5: the model is invoked at most max_iterations + 1
\* times in a call, a call in progress can always take its next step, and
\* when every one of the
\* max_iterations passes ended in a tool execution, one more invoke is made,
\* without tools, whose content is appended to Memory and returned.
C5_Bounds ==
    /\ n_invoke <= max_iterations + 1
    /\ iteration <= max_iterations
    /\ pc = "loop" => ENABLED (LoopIteration \/ LoopExit)
    /\ (pc = "done" /\ ~failed /\ n_cycles = max_iterations) =>
           /\ n_invoke = max_iterations + 1
           /\ ~last_tools
           /\ ret = last_resp.content
           /\ messages = log0 \o <<HumanMessage(user_input), AIMessage(last_resp.content)>>

\* C5: every call terminates, within the bound on invokes, and ends as stated
\* above when every pass executed a tool.
C5_Termination == [](C5_Bounds) /\ ((pc = "loop") ~> (pc = "done"))

\* C5 witness: at least two passes, all ending in a tool execution, then the
\* final answer.
C5_Witness ==
    pc = "done" /\ ~failed /\ max_iterations >= 2 /\ n_cycles = max_iterations

\* C6: at the first invoke of a call the window is the system prompt, the last
\* min(6, n) messages Memory held before the call, and the user message once.
C6_FirstWindow ==
    (pc = "loop" /\ n_invoke = 0) =>
        q_messages = <<SystemMessage(SYSTEM_PROMPT)>>
                     \o LastN(log0, HistorySlice)
                     \o <<HumanMessage(user_input)>>

\* C7: a call in which the model does not fail appends to Memory, and to the
\* file, exactly the user input and then the assistant message with the text
\* returned; nothing of the tool exchange.
C7_TwoMessages ==
    (pc = "done" /\ ~failed) =>
        /\ messages = log0 \o <<HumanMessage(user_input), AIMessage(ret)>>
        /\ file.exists
        /\ file.messages = SaveEntries(log0)
                           \o <<[role |-> "user", content |-> user_input],
                                [role |-> "assistant", content |-> ret]>>

\* C7 witness: a call that executed both tools and returned an answer.
C7_Witness == pc = "done" /\ ~failed /\ n_search >= 1 /\ n_time >= 1

\* C8 as stated: chat's memory_length is 2 more than the length get_memory
\* showed before the call.
C8_PlusTwo ==
    (pc = "done" /\ caller = "chat" /\ ~failed) => memory_length = got0 + 2

\* C8 as amended: chat's memory_length is the length of the window after the
\* call, min(2 * max_length, length of the log before the call + 2).
C8_Capped ==
    (pc = "done" /\ caller = "chat" /\ ~failed) =>
        memory_length = Min(2 * max_length, Len(log0) + 2)

\* C8 witness: a chat call on a log that already fills the window.
C8_Witness ==
    /\ pc = "done" /\ caller = "chat" /\ ~failed
    /\ Len(log0) >= 2 * max_length
    /\ memory_length = got0

\* C9: what get_memory returns has at most 2 * max_length messages and is the
\* most recent suffix of the log, in log order.
C9_WindowSuffix ==
    last_op = "get" =>
        /\ Len(got) <= 2 * max_length
        /\ Len(got) <= Len(messages)
        /\ \A i \in 1..Len(got) : got[i] = messages[Len(messages) - Len(got) + i]

\* C9 witness: get_memory on a log longer than the window.
C9_Witness ==
    /\ last_op = "get" /\ Len(messages) > 2 * max_length
    /\ Len(got) = 2 * max_length

\* C10: after clear_memory the window is empty and the file is gone, so a
\* fresh MemoryManager on the same storage starts empty too.
C10_ClearEmpties ==
    clearedFrom >= 0 =>
        /\ messages = <<>>
        /\ get_memory = <<>>
        /\ last_op = "get" => got = <<>>
        /\ ~file.exists
        /\ get_memory_of(_load_memory(file), max_length) = <<>>

\* C10 witness: a non-empty log was cleared and a fresh instance hydrated.
C10_Witness == clearedFrom > 0 /\ last_op = "load"

\* The log a fresh MemoryManager would hydrate from the file as it is now.
Hydrated == IF save_to_file THEN _load_memory(file) ELSE <<>>
Appended == last_op \in {"add_user", "add_ai"}
IsPrefix(s, t) == Len(s) <= Len(t) /\ SubSeq(t, 1, Len(s)) = s

\* C11: after any number of appends, each of them persisting the log, a fresh
\* instance hydrated from the file returns the same window (same roles, same
\* contents, same order) as the instance that wrote it, both when computed
\* from the file and when a restart actually happens; entries of the file with
\* role system are not replayed into a hydrated log.
C11_RoundTrip ==
    /\ [](/\ (Appended /\ save_out = "ok")
                => get_memory_of(Hydrated, max_length) = get_memory
          /\ (last_op = "load" /\ file.exists /\ file.valid)
                => /\ \A i \in 1..Len(messages) : messages[i].type # "SystemMessage"
                   /\ Len(messages) = Cardinality({i \in 1..Len(file.messages) :
                                                      file.messages[i].role # "system"}))
    /\ [][(Appended /\ save_out = "ok" /\ last_op' = "load")
              => get_memory' = get_memory]_vars

\* C11 witness: a restart after appends, over a log longer than its window.
C11_Witness ==
    /\ last_op = "load" /\ save_out = "ok"
    /\ Len(messages) > 2 * max_length
    /\ Len(messages) > MaxInitLen
    /\ file.exists /\ Len(file.messages) = Len(messages)

\* C12: between two clears the log of one instance only grows, by one entry
\* at its end, also once it is longer than 2 * max_length; and after an append
\* whose write went through the file holds every message of the whole log, in
\* order: not the window only.
C12_AppendOnly ==
    /\ []((Appended /\ save_out = "ok")
             => /\ file.exists /\ file.valid
                /\ Len(file.messages) = Len(messages)
                /\ \A i \in 1..Len(messages) :
                       /\ file.messages[i].content = messages[i].content
                       /\ file.messages[i].role =
                              (IF messages[i].type = "HumanMessage" THEN "user"
                               ELSE "assistant"))
    /\ [][last_op' \notin {"clear", "load"}
             => \/ messages' = messages
                \/ Len(messages') = Len(messages) + 1 /\ IsPrefix(messages, messages')]_vars

\* C12 witness: an append that was written, on a log longer than its window.
C12_Witness ==
    /\ Appended /\ save_out = "ok"
    /\ Len(messages) > 2 * max_length
    /\ Len(file.messages) = Len(messages)

IsToolResult(m) ==
    \/ m.type = "ToolMessage"
    \/ m.type = "AIMessage" /\ m.content # <<>> /\ m.content[1] = "\nSearch results: "

\* C13: a failing tool executor does not raise into the loop nor end it: the
\* search executor's text begins with "Search error: " and the clock's with
\* its failure marker, that text is in the window as the tool result (after
\* the label "Search results: " for a search), one result per executor call,
\* and the call ends, within max_iterations + 1 invocations, by returning the
\* text of the model's last response, not the apology.
C13_ToolFailure ==
    /\ [](/\ \A i \in 1..Len(q_messages) :
                 LET m == q_messages[i]
                 IN /\ m.type = "ToolMessage"
                        => \/ m.content[1] = "failed to get the time: "
                           \/ /\ m.content[1] = "Search results: "
                              /\ m.content[2] = "Search error: "
                    /\ (m.type = "AIMessage" /\ IsToolResult(m))
                        => m.content[2] = "Search error: "
          /\ Cardinality({i \in 1..Len(q_messages) : IsToolResult(q_messages[i])})
                 = n_search + n_time
          /\ pc = "done"
                 => /\ ~failed
                    /\ ret = last_resp.content
                    /\ ret # Apology
                    /\ n_invoke <= max_iterations + 1)
    /\ (pc = "loop") ~> (pc = "done")

\* C13 witness: a call that ended after a failed search and a failed clock lookup.
C13_Witness ==
    /\ pc = "done" /\ ~failed /\ ret = PlainText
    /\ n_search > 0 /\ n_time > 0
    /\ \E i \in 1..Len(q_messages) :
           q_messages[i].type = "ToolMessage"
           /\ q_messages[i].content[1] = "failed to get the time: "

\* C14: a write of the file that fails during an append is swallowed: the
\* message is in the log all the same, the call goes on, and query returns
\* the text of the model's response as it does when the write succeeds.
C14_WriteFailureSwallowed ==
    /\ pc = "loop" => /\ IsPrefix(Append(log0, HumanMessage(user_input)), messages)
                      /\ Len(messages) = Len(log0) + 1
    /\ pc = "done" => /\ ~failed
                      /\ ret = last_resp.content
                      /\ messages = log0 \o <<HumanMessage(user_input), AIMessage(ret)>>

\* C14 witness: a call that returned the model's text although the write of
\* its answer failed.
C14_Witness ==
    /\ pc = "done" /\ ret = PlainText
    /\ save_out = "truncated" /\ ~file.valid
    /\ messages[Len(messages)] = AIMessage(PlainText)

\* Whether hydrating from file f fails: the document does not parse, or the
\* loop meets an entry that raises.
HydrationFails(f) ==
    /\ f.exists
    /\ \/ ~f.valid
       \/ \E i \in 1..Len(f.messages) : EntryRaises(f.messages[i])

\* C15: when hydration fails (the file does not parse, or an entry at any
\* position lacks its role or its content), the log starts empty.
C15_FailedLoadEmpty == (last_op = "load" /\ HydrationFails(file)) => messages = <<>>

\* C16: when the first response of a call has no tool request and no
\* tool-call marker in its text, query returns that text after this one
\* invocation, no search and no clock lookup executed.
C16_DirectAnswer ==
    [][(/\ pc = "loop" /\ n_invoke = 0 /\ n_invoke' = 1
        /\ ~failed'
        /\ last_resp'.tool_calls = <<>>
        /\ Positions(last_resp'.content, 1, {TC}) = {})
          => /\ pc' = "done"
             /\ ret' = last_resp'.content
             /\ n_search' = 0 /\ n_time' = 0
             /\ messages' = Append(messages, AIMessage(ret'))]_vars

\* C16 witness: a call answered by the text of its first response.
C16_Witness ==
    /\ pc = "done" /\ ~failed /\ n_invoke = 1 /\ last_tools
    /\ ret = PlainText /\ n_search = 0 /\ n_time = 0

\* C17: get_context_string returns "No conversation history" exactly when the
\* log is empty; otherwise one line per message for the last min(6, size of
\* the window) messages, in log order, "User: " before a user's content and
\* "Assistant: " before an assistant's, the lines joined by newlines.
C17_ContextSummary ==
    last_op = "summary"
        => /\ (got = NoHistory) <=> (messages = <<>>)
           /\ messages # <<>>
                => LET w == get_memory
                       k == Min(6, Len(w))
                       line(j) == LET m == w[Len(w) - k + j]
                                  IN <<IF m.type = "HumanMessage" THEN "User: "
                                       ELSE "Assistant: ">> \o m.content
                   IN got = JoinLines([j \in 1..k |-> line(j)])

\* C17 witness: a summary of a window of more than 6 messages.
C17_Witness == last_op = "summary" /\ Len(get_memory) > 6 /\ Len(messages) > Len(get_memory)

\* C18: at no time are two calls of the agent (from /api/chat and
\* /api/chat/stream requests in any combination) in progress.
C18_Serialized == Cardinality(in_query) <= 1

\* The events of request r of type t.
EventsOf(r, t) == SelectSeq(reqs[r].events, LAMBDA e : e.type = t)

\* C19: a stream's events are: one start event first; then, only after query
\* returned, one content event per character of the returned text, in order;
\* then one terminal event, done when no error occurred, error otherwise and
\* never both; and every stream that started ends with its terminal event.
C19_StreamOrder ==
    /\ [](\A r \in Requests :
            LET e == reqs[r].events
                n == Len(e)
            IN /\ n > 0 => e[1].type = "start"
               /\ Len(EventsOf(r, "start")) <= 1
               /\ Len(EventsOf(r, "done")) + Len(EventsOf(r, "error")) <= 1
               /\ \A i \in 1..n : e[i].type \in {"done", "error"} => i = n
               /\ \A i \in 1..n : e[i].type = "content"
                                     => i >= 2 /\ e[i].content = reqs[r].text[i - 1]
               /\ reqs[r].pc \in {"stream_ready", "sleeping", "in_thread"}
                     => EventsOf(r, "content") = <<>>
               /\ reqs[r].pc = "closed"
                     => /\ n >= 2
                        /\ e[n].type \in {"done", "error"}
                        /\ e[n].type = "done"
                              => [i \in 1..(n - 2) |-> e[i + 1].content] = reqs[r].text
                        /\ e[n].type = "error" => n = 2)
    /\ \A r \in Requests : (reqs[r].pc = "stream_ready") ~> (reqs[r].pc = "closed")

\* C19 witness: a stream closed by done after the events of a three-character text.
C19_Witness ==
    \E r \in Requests :
        /\ reqs[r].pc = "closed"
        /\ reqs[r].text = Apology
        /\ Len(reqs[r].events) = 5
        /\ reqs[r].events[5].type = "done"

\* C20: within a call the model is invoked with the tools only while fewer
\* than max_searches searches were executed: an invocation with tools never
\* happens once search_count has reached max_searches.
C20_ToolsWhileBudget ==
    [][(n_invoke' = n_invoke + 1 /\ last_tools') => search_count < max_searches]_vars

\* A step of the loop that invoked the model with the tools and got a response.
LoopResponded == n_invoke' = n_invoke + 1 /\ last_tools' /\ ~failed'

\* C21: when a response asks for a search after the budget is used up and
\* iterations remain, the loop does not end on that response: it goes on to
\* invoke the model again.
C21_DiscardReinvokes ==
    [][(n_skip' = n_skip + 1 /\ iteration' < max_iterations) => pc' = "loop"]_vars

\* C22: discarding a search request for exhausted budget leaves the call's
\* state as it is: no executor is called, nothing is appended to the window,
\* the search count is unchanged.
C22_DiscardFrame ==
    [][n_skip' = n_skip + 1
          => /\ q_messages' = q_messages
             /\ search_count' = search_count
             /\ n_search' = n_search
             /\ n_time' = n_time]_vars

\* C22 witness: a request discarded after two searches, in a response that
\* carried a second request as well.
C22_Witness ==
    /\ pc = "done" /\ n_skip = 1 /\ n_search = max_searches
    /\ Len(last_resp.tool_calls) = 2
    /\ q_messages[Len(q_messages)].type = "ToolMessage"

\* C23: when a response inside the loop carries a request for a known tool
\* together with non-empty prose, the prose is not returned and not appended
\* to Memory: the loop continues.
C23_ProseDiscarded ==
    [][(/\ LoopResponded
        /\ FirstKnown(last_resp'.tool_calls) # 0
        /\ last_resp'.content # <<>>)
          => pc' = "loop" /\ messages' = messages]_vars

\* C24: when a response inside the loop carries a clock request, the clock is
\* executed for it whatever the number of searches executed, the response and
\* the clock's result are appended to the window, the loop goes on, and the
\* search count is unchanged.
C24_ClockAlways ==
    [][(/\ LoopResponded
        /\ \E i \in 1..Len(last_resp'.tool_calls) :
               last_resp'.tool_calls[i].name = "get_current_time")
          => /\ n_time' = n_time + 1
             /\ search_count' = search_count
             /\ pc' = "loop"
             /\ Len(q_messages') = Len(q_messages) + 2
             /\ q_messages'[Len(q_messages') - 1] = ResponseMessage(last_resp')
             /\ q_messages'[Len(q_messages')].type = "ToolMessage"]_vars

\* C25: in the window every tool-result message directly follows an assistant
\* message that carries tool invocations, one of which has the result's id;
\* and after the run clock, search, answer the window ends with: the user's
\* message, the assistant's clock request, the clock's result, the assistant's
\* search request, the search's result.
C25_ResultFollowsRequest ==
    /\ \A i \in 1..Len(q_messages) :
           q_messages[i].type = "ToolMessage"
               => /\ i > 1
                  /\ q_messages[i - 1].type = "AIMessage"
                  /\ \E j \in 1..Len(q_messages[i - 1].tool_calls) :
                         q_messages[i - 1].tool_calls[j].id = q_messages[i].tool_call_id
    /\ (llm = "clock_search_answer" /\ pc = "done" /\ ~failed
            /\ n_time = 1 /\ n_search = 1)
          => LET n == Len(q_messages)
             IN /\ n >= 6
                /\ q_messages[n - 4] = HumanMessage(user_input)
                /\ q_messages[n - 3].type = "AIMessage"
                /\ q_messages[n - 3].tool_calls = <<TimeCall(1, 1)>>
                /\ q_messages[n - 2] =
                       ToolMessage(get_current_time(<<"Asia/Shanghai">>), CallId(1, 1))
                /\ q_messages[n - 1].type = "AIMessage"
                /\ q_messages[n - 1].tool_calls = <<SearchCall(2, 1)>>
                /\ q_messages[n] =
                       ToolMessage(<<"Search results: ">> \o search(<<"kw">>), CallId(2, 1))

\* C25 witness: the run clock, search, answer, ended.
C25_Witness ==
    /\ llm = "clock_search_answer" /\ pc = "done" /\ ~failed
    /\ n_time = 1 /\ n_search = 1 /\ n_invoke = 3 /\ ret = PlainText

\* The note the fallback appends for the query <<"kw">> of XmlCallText.
FallbackNote ==
    AIMessage(<<"\nSearch results: ">> \o search(<<"kw">>)
              \o <<"\n\nBased on these results, please provide the answer:">>)

\* C26: the text fallback runs a search only for a response without tool
\* request, with non-empty text, while fewer than max_searches searches were
\* executed; for a text it finds a query in, the search executor runs once,
\* the response and an assistant-role note with the results (not a tool-result
\* message) are appended to the window, the search count grows by 1 and the
\* loop goes on; with the budget used up the same text is returned as the
\* final answer, no search executed.
C26_Fallback ==
    [][LoopResponded
          => LET r == last_resp'
                 n == Len(q_messages')
             IN /\ (n_search' = n_search + 1 /\ q_messages'[n].type = "AIMessage")
                      => /\ r.tool_calls = <<>>
                         /\ r.content # <<>>
                         /\ search_count < max_searches
                /\ (r = Response(XmlCallText, <<>>) /\ search_count < max_searches)
                      => /\ n_search' = n_search + 1
                         /\ n_time' = n_time
                         /\ search_count' = search_count + 1
                         /\ q_messages' = q_messages \o <<ResponseMessage(r), FallbackNote>>
                         /\ pc' = "loop"
                /\ (r = Response(XmlCallText, <<>>) /\ search_count >= max_searches)
                      => /\ n_search' = n_search
                         /\ q_messages' = q_messages
                         /\ pc' = "done"
                         /\ ret' = XmlCallText]_vars

\* C26 witness: after two searches, one of them by fallback, the text of a
\* further text-format call returned as the answer.
C26_Witness ==
    /\ pc = "done" /\ ~failed /\ ret = XmlCallText
    /\ search_count = max_searches
    /\ \E i \in 1..Len(q_messages) : q_messages[i] = FallbackNote

\* The query each text-format call is to yield: the value-tagged pattern's
\* argument before the call-syntax pattern's, that before the JSON pattern's.
ExpectedQuery ==
    {<<XmlCallText, <<"kw">>>>, <<CallSyntaxText, <<"q2">>>>, <<JsonCallText, <<"q3">>>>,
     <<XmlAndJsonText, <<"q1">>>>, <<SyntaxAndJsonText, <<"q2">>>>,
     <<PaddedXmlText, <<"q1">>>>}
\* The texts that yield no search: no marker; marker and no pattern matching;
\* the first matching pattern's argument blank.
ExpectedNone == {PlainText, UnmarkedCallText, MarkerOnlyText, BlankXmlText}

\* C27: the fallback parser gives no query for a text without the tool-call
\* marker; otherwise the argument of the first pattern that matches, trying
\* the value-tagged, then the call-syntax, then the JSON "query" pattern; when
\* the marker is there and no pattern matches, no search is executed and the
\* raw text, marker included, is returned and appended to Memory.
C27_ParserOrder ==
    [][(LoopResponded /\ search_count < max_searches)
          => LET c == last_resp'.content
             IN /\ \A e \in ExpectedQuery :
                       c = e[1]
                           => /\ n_search' = n_search + 1
                              /\ pc' = "loop"
                              /\ q_messages'[Len(q_messages')].content
                                     = <<"\nSearch results: ">> \o search(e[2])
                                       \o <<"\n\nBased on these results, please provide the answer:">>
                /\ c \in ExpectedNone
                       => /\ n_search' = n_search
                          /\ pc' = "done"
                          /\ ret' = c
                          /\ messages' = Append(messages, AIMessage(c))
                /\ c \in {e[1] : e \in ExpectedQuery} \cup ExpectedNone]_vars

\* C27 witness: the marker-only text returned as the answer after a search
\* whose query came from the call-syntax pattern.
C27_Witness ==
    /\ pc = "done" /\ ~failed /\ ret = MarkerOnlyText /\ n_search = 1
    /\ messages[Len(messages)] = AIMessage(MarkerOnlyText)
    /\ \E i \in 1..Len(q_messages) :
           q_messages[i].content = <<"\nSearch results: ">> \o search(<<"q2">>)
               \o <<"\n\nBased on these results, please provide the answer:">>

\* Whether ms is user, assistant, user, assistant, ... and of even length.
WholePairs(ms) ==
    /\ Len(ms) % 2 = 0
    /\ \A i \in 1..Len(ms) :
           ms[i].type = (IF i % 2 = 1 THEN "HumanMessage" ELSE "AIMessage")

\* C28: after any sequence of query and clear calls, one at a time and model
\* failures included, the log is made of whole exchanges: user and assistant
\* messages alternate, a user message first, so that the last 6 messages are
\* 3 whole exchanges.
C28_WholePairs ==
    pc \in {"idle", "done"}
        => /\ WholePairs(messages)
           /\ Len(messages) >= 6 => WholePairs(LastN(messages, HistorySlice))

\* The first request of tcs that names a known tool; 0 when there is none.
FirstKnownRequest(tcs) ==
    IF \A i \in 1..Len(tcs) : tcs[i].name \notin {"search_web", "get_current_time"} THEN 0
    ELSE CHOOSE i \in 1..Len(tcs) :
             /\ tcs[i].name \in {"search_web", "get_current_time"}
             /\ \A j \in 1..(i - 1) : tcs[j].name \notin {"search_web", "get_current_time"}

\* C30: at most one tool executor call is made per model response: of the
\* requests a response carries, only the first that names a known tool is
\* dispatched (executed, or discarded when it is a search over budget); the
\* others are not executed.
C30_OneToolPerResponse ==
    [][LoopResponded
          => LET tcs == last_resp'.tool_calls
                 k == FirstKnownRequest(tcs)
                 n == Len(q_messages')
             IN /\ (n_search' - n_search) + (n_time' - n_time) + (n_skip' - n_skip) <= 1
                /\ n <= Len(q_messages) + 2
                /\ Cardinality({i \in (Len(q_messages) + 1)..n :
                                   IsToolResult(q_messages'[i])})
                       = (n_search' - n_search) + (n_time' - n_time)
                /\ (tcs # <<>> /\ k = 0)
                       => n_search' = n_search /\ n_time' = n_time /\ n_skip' = n_skip
                /\ (k # 0 /\ tcs[k].name = "search_web" /\ search_count < max_searches)
                       => /\ n_search' = n_search + 1 /\ n_time' = n_time
                          /\ q_messages'[n].tool_call_id = tcs[k].id
                /\ (k # 0 /\ tcs[k].name = "search_web" /\ search_count >= max_searches)
                       => n_skip' = n_skip + 1 /\ n_search' = n_search /\ n_time' = n_time
                /\ (k # 0 /\ tcs[k].name = "get_current_time")
                       => /\ n_time' = n_time + 1 /\ n_search' = n_search
                          /\ q_messages'[n].tool_call_id = tcs[k].id]_vars

\* C30 witness: a response with a search and a clock request, of which the
\* search alone was executed.
C30_Witness ==
    /\ pc = "loop" /\ n_search = 1 /\ n_time = 0
    /\ Len(last_resp.tool_calls) = 2
    /\ last_resp.tool_calls[1].name = "search_web"
    /\ last_resp.tool_calls[2].name = "get_current_time"
    /\ q_messages[Len(q_messages)].tool_call_id = last_resp.tool_calls[1].id

\* C29: append-then-persist is not atomic across two concurrent query calls:
\* the file a call writes is the list that call read from the log before,
\* whatever was appended since, so the file holds a prefix of the log, which
\* may lack messages whose appends are complete; and the messages of the two
\* calls are interleaved in the log in the order of their appends.
C29_NotAtomic ==
    /\ []((file.exists /\ file.valid) => IsPrefix(file.messages, SaveEntries(messages)))
    /\ [][\A r \in Callers :
              (reqs[r].step = "open" /\ reqs'[r].step = "saved" /\ file'.valid)
                  => file'.messages = reqs[r].snap]_vars
    /\ [](\A r \in Callers :
              /\ reqs[r].upos > 0
                    => messages[reqs[r].upos] = HumanMessage(reqs[r].message)
              /\ reqs[r].apos > 0
                    => /\ messages[reqs[r].apos] = AIMessage(reqs[r].text)
                       /\ reqs[r].apos > reqs[r].upos)

\* C29 witness: both calls returned, every append and write complete; the file
\* lacks a message that is in the log, and one call's answer does not directly
\* follow that call's user message.
C29_Witness ==
    /\ in_query = {}
    /\ \A r \in Callers : reqs[r].apos > 0 /\ reqs[r].pc \in {"streaming", "closed"}
    /\ file.exists /\ file.valid
    /\ Len(file.messages) < Len(messages)
    /\ \E r \in Callers : reqs[r].apos # reqs[r].upos + 1

\* Whether the window ms holds a tool-result message answering invocation id.
Answered(ms, id) ==
    \E k \in 1..Len(ms) : ms[k].type = "ToolMessage" /\ ms[k].tool_call_id = id

\* C31: at every model invocation after the first of a query call (a pass of
\* the loop or the invoke after it, with at least one pass done), each tool
\* invocation carried by an assistant message of the window has a tool-result
\* message in the window answering its id, also for a response that carried
\* more than one tool invocation request.
C31_InvocationsAnswered ==
    (pc = "loop" /\ iteration >= 1)
        => \A i \in 1..Len(q_messages) :
               q_messages[i].type = "AIMessage"
                   => \A j \in 1..Len(q_messages[i].tool_calls) :
                          Answered(q_messages, q_messages[i].tool_calls[j].id)

=============================================================================
